---- MODULE Spec2Model ----
(***************************************************************************)
(* Panel construction (build.py), estimation (models.py) and diagnostics   *)
(* (diagnostics.py) of the Molise earthquake analysis, as state machines:  *)
(* a table df is loaded row by row, one function of the pipeline is called *)
(* on it, and the value it returns (or the fact that it raised) is kept in *)
(* ret.  A table is a sequence of rows; a row is a record of its columns.  *)
(***************************************************************************)
EXTENDS Integers, Sequences, FiniteSets, TLC

VARIABLES df, call, ret, diag

vars == <<df, call, ret, diag>>

(***************************************************************************)
(* Bounds of the model.                                                    *)
(***************************************************************************)
MaxRows == 3
\* years of the window 1997..2007 a loaded worker may lack
MaxMissing == 1
\* rows of a table passed to make_outcomes
MaxOutcomeRows == 2
\* rows of a panel passed to the estimation functions
MaxPanelRows == 4

(***************************************************************************)
(* Values shared by the tables.                                            *)
(***************************************************************************)
\* numpy.nan in a numeric column (reindex on a label that is absent).
NaN == -999
\* a missing category / a missing object cell
NA == "NA"
\* no call has returned yet; a call that raised
None == [kind |-> "none"]
Raised == [kind |-> "raised"]

TREATMENT_CODE == "12"
CONTROL_CODE == "2"
EVENT_YEAR == 2002
POST_START == 2003
FIRST_YEAR == 1997
LAST_YEAR == 2007

Range(t) == {t[i] : i \in 1..Len(t)}

\* col in df.columns; a table without rows is taken to have every column
has_column(t, col) == t = <<>> \/ col \in DOMAIN t[1]

(***************************************************************************)
(* build.py: construct_worker_type                                         *)
(***************************************************************************)
\* a map that gives the codes it does not list a category of their own
worker_type_map_with_default(code) ==
    CASE code = 1 -> "private"
      [] code = 2 -> "public"
      [] code = 3 -> "self"
      [] OTHER -> "non_employed"

worker_type_map(code) ==
    CASE code = 1 -> "private"
      [] code = 2 -> "public"
      [] code = 3 -> "self"
      [] code = 4 -> "non_employed"
      [] OTHER -> NA

construct_worker_type(code) == worker_type_map(code)

(***************************************************************************)
(* build.py: make_flags.  person_years is the set of years of each worker; *)
(* the flag of a row is looked up by the row's worker.                     *)
(***************************************************************************)
\* the required years with the earthquake year among them
required_years_with_2002 == FIRST_YEAR..LAST_YEAR

required_years == (FIRST_YEAR..(EVENT_YEAR - 1)) \cup (POST_START..LAST_YEAR)

person_years(t, id) == {t[i].year : i \in {j \in 1..Len(t) : t[j].id_worker = id}}

is_balanced_97_07(t, id) == required_years \subseteq person_years(t, id)

\* municipality_col=None
NO_COLUMN == ""

\* groupby(person_id_col)[municipality_col].nunique(): the distinct
\* municipalities of the worker, a missing one not counted
person_municipalities(t, id, municipality_col) ==
    {t[i][municipality_col] : i \in {j \in 1..Len(t) : t[j].id_worker = id}} \ {NA}

is_stayer_residence(t, id, municipality_col) ==
    IF municipality_col # NO_COLUMN /\ has_column(t, municipality_col)
    THEN Cardinality(person_municipalities(t, id, municipality_col)) = 1
    ELSE TRUE

make_flags_with(t, municipality_col) ==
    [i \in 1..Len(t) |->
        [is_balanced_97_07 |-> is_balanced_97_07(t, t[i].id_worker),
         is_stayer_residence |-> is_stayer_residence(t, t[i].id_worker, municipality_col),
         is_border_municipality |-> FALSE]]

\* make_flags(df): municipality_col keeps its default
make_flags(t) == make_flags_with(t, NO_COLUMN)

(***************************************************************************)
(* build.py: make_outcomes.  A cell of a column is missing, a number, or a *)
(* text (a tuple of characters).  A column that holds a text has dtype     *)
(* object.  A column the table does not have is no field of its rows.      *)
(***************************************************************************)
missing_cell == [k |-> "na"]
num_cell(v) == [k |-> "num", v |-> v]
str_cell(s) == [k |-> "str", s |-> s]

digit_value(c) ==
    CASE c = "0" -> 0 [] c = "1" -> 1 [] c = "2" -> 2 [] c = "3" -> 3
      [] c = "4" -> 4 [] c = "5" -> 5 [] c = "6" -> 6 [] c = "7" -> 7
      [] c = "8" -> 8 [] c = "9" -> 9 [] OTHER -> NaN

RECURSIVE digits_value(_, _)
digits_value(s, acc) ==
    IF s = <<>> THEN acc
    ELSE IF digit_value(Head(s)) = NaN THEN NaN
         ELSE digits_value(Tail(s), 10 * acc + digit_value(Head(s)))

\* the number a text denotes, NaN when it denotes none (errors='coerce')
parse_number(s) ==
    IF s = <<>> THEN NaN
    ELSE IF Head(s) = "-"
         THEN IF Tail(s) = <<>> \/ digits_value(Tail(s), 0) = NaN THEN NaN
              ELSE 0 - digits_value(Tail(s), 0)
         ELSE digits_value(s, 0)

\* pd.to_numeric(column, errors='coerce'), cell by cell
to_numeric(c) ==
    CASE c.k = "num" -> c.v
      [] c.k = "str" -> parse_number(c.s)
      [] OTHER -> NaN

column_dtype(t, col) ==
    IF \E i \in 1..Len(t) : t[i][col].k = "str" THEN "object" ELSE "float64"

\* wage_numeric: coerced when the column is of dtype object, as it is otherwise
wage_numeric(t, i) ==
    IF column_dtype(t, "wage") = "object"
    THEN to_numeric(t[i].wage)
    ELSE IF t[i].wage.k = "num" THEN t[i].wage.v ELSE NaN

notna(c) == c.k # "na"

\* x > 0 on a float that may be NaN
greater_than_zero(x) == x # NaN /\ x > 0

\* the employment test with the coercion of working_weeks left out
emp_prob_weeks_not_coerced(t, i) ==
    IF \/ greater_than_zero(wage_numeric(t, i))
       \/ notna(t[i].working_weeks)
    THEN 1 ELSE 0

emp_prob(t, i) ==
    IF \/ (wage_numeric(t, i) # NaN /\ greater_than_zero(wage_numeric(t, i)))
       \/ (notna(t[i].working_weeks)
              /\ greater_than_zero(to_numeric(t[i].working_weeks)))
    THEN 1 ELSE 0

\* a float kept as the quotient of two integers; 0 / 0 is NaN
quotient(n, d) == [num |-> n, den |-> d]

nan_quotient == quotient(0, 0)

WEEKS_PER_YEAR == 52
MONTHS_PER_YEAR == 12

\* earnings_annual: wage * (weeks / 52) * 12 with a missing working_weeks
\* filled by 52, or wage * 12 when the table has no working_weeks column
earnings_annual(t, i) ==
    IF wage_numeric(t, i) = NaN THEN nan_quotient
    ELSE IF has_column(t, "working_weeks")
         THEN LET coerced == to_numeric(t[i].working_weeks)
                  weeks == IF coerced = NaN THEN WEEKS_PER_YEAR ELSE coerced
              IN  quotient(wage_numeric(t, i) * weeks * MONTHS_PER_YEAR, WEEKS_PER_YEAR)
         ELSE quotient(wage_numeric(t, i) * MONTHS_PER_YEAR, 1)

\* np.arcsinh of the value clipped to the 1st and 99th percentile of its
\* column, kept as the value it is applied to
asinh_winsorized(x) == [asinh_winsorized_of |-> x]

\* (pd.to_numeric(df[contract_col], errors='coerce') == 1).astype(int), or 0
contract_perm(t, i) ==
    IF has_column(t, "contract_type")
    THEN IF to_numeric(t[i].contract_type) = 1 THEN 1 ELSE 0
    ELSE 0

\* days from 1970-01-01 to the day d of month m of year y
days_from_civil(y, m, d) ==
    LET yy == IF m <= 2 THEN y - 1 ELSE y
        era == yy \div 400
        yoe == yy - era * 400
        mp == IF m > 2 THEN m - 3 ELSE m + 9
        doy == (153 * mp + 2) \div 5 + d - 1
        doe == yoe * 365 + yoe \div 4 - yoe \div 100 + doy
    IN  era * 146097 + doe - 719468

is_leap(y) == (y % 4 = 0 /\ y % 100 # 0) \/ y % 400 = 0

days_in_month(y, m) ==
    IF m = 2 THEN (IF is_leap(y) THEN 29 ELSE 28)
    ELSE IF m \in {4, 6, 9, 11} THEN 30 ELSE 31

\* the day a text of the form YYYY-MM-DD denotes, NaN (NaT) for any other
parse_date(s) ==
    IF Len(s) # 10 \/ s[5] # "-" \/ s[8] # "-" THEN NaN
    ELSE LET y == digits_value(SubSeq(s, 1, 4), 0)
             m == digits_value(SubSeq(s, 6, 7), 0)
             d == digits_value(SubSeq(s, 9, 10), 0)
         IN  IF y = NaN \/ m = NaN \/ d = NaN THEN NaN
             ELSE IF m < 1 \/ m > 12 \/ d < 1 \/ d > days_in_month(y, m) THEN NaN
                  ELSE days_from_civil(y, m, d)

\* pd.to_datetime(column, errors='coerce'), cell by cell
to_datetime(c) ==
    CASE c.k = "str" -> parse_date(c.s)
      [] OTHER -> NaN

\* (date_end - date_start).dt.days with a missing difference filled by 0,
\* or 0 when one of the two columns is absent
contract_duration_days(t, i) ==
    IF has_column(t, "date_start") /\ has_column(t, "date_end")
    THEN IF to_datetime(t[i].date_start) = NaN \/ to_datetime(t[i].date_end) = NaN
         THEN 0
         ELSE to_datetime(t[i].date_end) - to_datetime(t[i].date_start)
    ELSE 0

\* df[wage_col] and df[working_weeks_col] are read whether or not the
\* column exists: a KeyError when one is absent
make_outcomes_raises(t) ==
    ~has_column(t, "wage") \/ ~has_column(t, "working_weeks")

make_outcomes(t) ==
    [i \in 1..Len(t) |->
        [emp_prob |-> emp_prob(t, i),
         earnings_asinh |-> asinh_winsorized(earnings_annual(t, i)),
         wage_asinh |-> asinh_winsorized(IF wage_numeric(t, i) = NaN THEN nan_quotient
                                         ELSE quotient(wage_numeric(t, i), 1)),
         contract_perm |-> contract_perm(t, i),
         contract_duration_days |-> contract_duration_days(t, i)]]


(***************************************************************************)
(* build.py: assemble_panel.  A raw row carries its index label idx (the   *)
(* RangeIndex of the loaded table, 0-based) and the columns id_worker,     *)
(* year, region_res and type.  The raw table has no year_birth column, so  *)
(* age and age_sq are missing.                                             *)
(***************************************************************************)
\* panel['age'], panel['age_sq']: missing without a year_birth column
age(t, i) ==
    IF has_column(t, "year_birth")
    THEN IF t[i].year = NaN \/ t[i].year_birth = NaN THEN NaN
         ELSE t[i].year - t[i].year_birth
    ELSE NaN

age_sq(t, i) == IF age(t, i) = NaN THEN NaN ELSE age(t, i) * age(t, i)

\* the columns assigned before the first filter; the other columns stay
with_worker_type(t) ==
    [i \in 1..Len(t) |->
        [age |-> age(t, i), age_sq |-> age_sq(t, i),
         worker_type |-> construct_worker_type(t[i].type)] @@ t[i]]

\* panel[panel['worker_type'] != 'non_employed']: a missing category is kept
employed(r) == r.worker_type # "non_employed"

molise_indicator(region) == IF region = TREATMENT_CODE THEN 1 ELSE 0

post_indicator(year) == IF year >= POST_START THEN 1 ELSE 0

with_treatment(t) ==
    [i \in 1..Len(t) |->
        [molise_res |-> molise_indicator(t[i].region_res),
         post |-> post_indicator(t[i].year),
         treat |-> molise_indicator(t[i].region_res) * post_indicator(t[i].year),
         event_time |-> t[i].year - EVENT_YEAR] @@ t[i]]

\* the filter without the exclusion of the earthquake year
in_analysis_period_keeps_2002(r) ==
    r.year >= FIRST_YEAR /\ r.year <= LAST_YEAR

in_analysis_period(r) ==
    r.year >= FIRST_YEAR /\ r.year <= LAST_YEAR /\ r.year # EVENT_YEAR

in_regions(r) == r.region_res \in {TREATMENT_CODE, CONTROL_CODE}

\* pre_period.groupby('id_worker')['molise_res'].first(): the first row of
\* the worker in ROW order among the rows with year < 2002
has_pre(t, id) == \E i \in 1..Len(t) : t[i].id_worker = id /\ t[i].year < EVENT_YEAR

first_pre_position(t, id) ==
    CHOOSE i \in 1..Len(t) :
        /\ t[i].id_worker = id /\ t[i].year < EVENT_YEAR
        /\ \A j \in 1..(i - 1) : ~(t[j].id_worker = id /\ t[j].year < EVENT_YEAR)

pre_residence(t, id) == t[first_pre_position(t, id)].molise_res

\* .fillna(panel['molise_res']): the fill Series is aligned on the index of
\* the Series being filled, whose labels are the id_worker values, so the
\* fill of a row is the molise_res of the row LABELLED id_worker, or NaN
fill_value(t, id) ==
    IF \E j \in 1..Len(t) : t[j].idx = id
    THEN t[CHOOSE j \in 1..Len(t) : t[j].idx = id].molise_res
    ELSE NaN

resolved_molise_res(t, i) ==
    IF \E j \in 1..Len(t) : t[j].year < EVENT_YEAR
    THEN IF has_pre(t, t[i].id_worker)
         THEN pre_residence(t, t[i].id_worker)
         ELSE fill_value(t, t[i].id_worker)
    ELSE t[i].molise_res

\* for col in outcomes.columns: panel[col] = outcomes[col]
with_outcomes(t) == [i \in 1..Len(t) |-> make_outcomes(t)[i] @@ t[i]]

\* the flags of make_flags(panel), then the re-resolved molise_res
with_flags_and_residence(t) ==
    [i \in 1..Len(t) |->
        [molise_res |-> resolved_molise_res(t, i),
         is_balanced_97_07 |-> make_flags(t)[i].is_balanced_97_07,
         is_stayer_residence |-> make_flags(t)[i].is_stayer_residence,
         is_border_municipality |-> make_flags(t)[i].is_border_municipality] @@ t[i]]

\* a column assemble_panel or the make_outcomes it calls reads is absent:
\* a KeyError
assemble_panel_raises(t) ==
    \/ \E col \in {"id_worker", "year", "region_res", "type"} : ~has_column(t, col)
    \/ make_outcomes_raises(t)

\* binding panel to the caller's table itself instead of a copy of it
no_copy(t) == [rows |-> t, is_callers_table |-> TRUE]

\* panel = df.copy(): a new table with the rows of df
copy(t) == [rows |-> t, is_callers_table |-> FALSE]

\* The caller's table after the call.  panel['age'], panel['age_sq'] and
\* panel['worker_type'] are assigned in place to the table panel is bound
\* to; from the first filter on, panel is bound to new tables.
callers_table_after_assemble_panel(t) ==
    LET panel == copy(t)
    IN  IF panel.is_callers_table /\ has_column(t, "year") /\ has_column(t, "type")
        THEN with_worker_type(panel.rows)
        ELSE t

assemble_panel(t) ==
    LET typed == with_worker_type(t)
        kept == SelectSeq(typed, employed)
        treated == with_treatment(kept)
        period == SelectSeq(treated, in_analysis_period)
        region == SelectSeq(period, in_regions)
    IN  with_flags_and_residence(with_outcomes(region))

(***************************************************************************)
(* The raw tables assemble_panel is called on: up to MaxRows rows, of      *)
(* which at most one lies outside the analysis sample by exactly one of    *)
(* its columns (a non-employed type, a year outside the window or the      *)
(* earthquake year, a third region).  Every row has the same wage and      *)
(* working_weeks.                                                          *)
(***************************************************************************)
Workers == {1, 2}
SampleYears == {2000, 2001, 2003}
OtherYears == {1996, 2002, 2008}
OtherRegion == "5"

InSampleRows ==
    [id_worker : Workers, year : SampleYears,
     region_res : {TREATMENT_CODE, CONTROL_CODE}, type : {1}]

OutOfSampleRows ==
    [id_worker : Workers, year : OtherYears,
     region_res : {TREATMENT_CODE, CONTROL_CODE}, type : {1}]
    \cup [id_worker : Workers, year : SampleYears,
          region_res : {OtherRegion}, type : {1}]
    \cup [id_worker : Workers, year : SampleYears,
          region_res : {TREATMENT_CODE, CONTROL_CODE}, type : {4}]

raw_in_sample(r) ==
    /\ r.type # 4
    /\ r.year \in (FIRST_YEAR..LAST_YEAR) \ {EVENT_YEAR}
    /\ r.region_res \in {TREATMENT_CODE, CONTROL_CODE}

labelled(r, n) ==
    [idx |-> n, id_worker |-> r.id_worker, year |-> r.year,
     region_res |-> r.region_res, type |-> r.type,
     wage |-> num_cell(7), working_weeks |-> num_cell(52)]

PanelInit ==
    /\ df = <<>>
    /\ call = "none"
    /\ ret = None
    /\ diag = None

\* load one more raw row; its label is its 0-based position
LoadRawRow ==
    /\ call = "none"
    /\ Len(df) < MaxRows
    /\ \E r \in InSampleRows \cup OutOfSampleRows :
          /\ raw_in_sample(r) \/ \A i \in 1..Len(df) : raw_in_sample(df[i])
          /\ df' = Append(df, labelled(r, Len(df)))
    /\ UNCHANGED <<call, ret, diag>>

CallAssemblePanel ==
    /\ call = "none"
    /\ call' = "assemble_panel"
    /\ ret' = IF assemble_panel_raises(df) THEN Raised
              ELSE [kind |-> "table", rows |-> assemble_panel(df)]
    /\ df' = callers_table_after_assemble_panel(df)
    /\ UNCHANGED diag

PanelNext == LoadRawRow \/ CallAssemblePanel

PanelSpec == PanelInit /\ [][PanelNext]_vars

(***************************************************************************)
(* Claims about assemble_panel.                                            *)
(***************************************************************************)
Returned(fn) == call = fn /\ ret.kind = "table"

panel_rows_of(id) == {i \in 1..Len(ret.rows) : ret.rows[i].id_worker = id}

pre_rows_of(id) == {i \in panel_rows_of(id) : ret.rows[i].year < EVENT_YEAR}

post_rows_of(id) == {i \in panel_rows_of(id) : ret.rows[i].year >= POST_START}

\* the worker's earliest pre-2002 observations in the panel
earliest_pre_rows_of(id) ==
    {i \in pre_rows_of(id) :
        \A j \in pre_rows_of(id) : ret.rows[i].year <= ret.rows[j].year}

\* C1: a worker of the returned panel with a row before 2002 and a row from
\* 2003 on (and one earliest pre-2002 observation) has, on every row, the
\* region indicator of that earliest observation, whatever the row order.
C1_EarliestPreResidence ==
    Returned("assemble_panel") =>
        \A id \in Workers :
            (pre_rows_of(id) # {} /\ post_rows_of(id) # {}
                /\ Cardinality(earliest_pre_rows_of(id)) = 1) =>
                \A i \in panel_rows_of(id) : \A e \in earliest_pre_rows_of(id) :
                    ret.rows[i].molise_res = molise_indicator(ret.rows[e].region_res)

\* C2: a row of a worker with no observation before 2002 keeps the
\* molise_res computed from its own region_res; it is never missing.
C2_NoPreKeepsOwnValue ==
    Returned("assemble_panel") =>
        \A i \in 1..Len(ret.rows) :
            (\A j \in 1..Len(df) :
                df[j].id_worker = ret.rows[i].id_worker => df[j].year >= EVENT_YEAR) =>
                ret.rows[i].molise_res = molise_indicator(ret.rows[i].region_res)

\* C3: every row of the returned panel has treat = molise_res * post for
\* the molise_res stored on the row, post = 1 iff year >= 2003 and
\* event_time = year - 2002 (stated for the rows whose molise_res is not
\* missing).
C3_TreatIsProduct ==
    Returned("assemble_panel") =>
        \A i \in 1..Len(ret.rows) :
            ret.rows[i].molise_res # NaN =>
                /\ ret.rows[i].treat = ret.rows[i].molise_res * ret.rows[i].post
                /\ ret.rows[i].post = (IF ret.rows[i].year >= 2003 THEN 1 ELSE 0)
                /\ ret.rows[i].event_time = ret.rows[i].year - 2002

\* C4: every row of the returned panel is employed, in 1997..2001 or
\* 2003..2007 and in the treatment or the control region, and every raw row
\* that is all three is in the panel.
C4_SampleFilter ==
    Returned("assemble_panel") =>
        /\ \A i \in 1..Len(ret.rows) :
              /\ ret.rows[i].worker_type # "non_employed"
              /\ ret.rows[i].year \in {1997, 1998, 1999, 2000, 2001,
                                        2003, 2004, 2005, 2006, 2007}
              /\ ret.rows[i].region_res \in {"12", "2"}
        /\ \A j \in 1..Len(df) :
              (/\ df[j].type # 4
               /\ df[j].year \in {1997, 1998, 1999, 2000, 2001,
                                   2003, 2004, 2005, 2006, 2007}
               /\ df[j].region_res \in {"12", "2"}) =>
                  \E i \in 1..Len(ret.rows) :
                      /\ ret.rows[i].idx = df[j].idx
                      /\ ret.rows[i].id_worker = df[j].id_worker
                      /\ ret.rows[i].year = df[j].year
                      /\ ret.rows[i].region_res = df[j].region_res

\* a panel that kept two rows and dropped the earthquake-year row
C4_Witness ==
    /\ Returned("assemble_panel")
    /\ Len(df) = 3 /\ Len(ret.rows) = 2
    /\ \E j \in 1..Len(df) : df[j].year = 2002

(***************************************************************************)
(* The tables make_flags is called on: each worker is loaded with the rows *)
(* of the years 1997..2007 less at most MaxMissing of them, in year order. *)
(***************************************************************************)
RECURSIVE sorted_values(_)
sorted_values(Y) ==
    IF Y = {} THEN <<>>
    ELSE LET y == CHOOSE m \in Y : \A o \in Y : m <= o
         IN  <<y>> \o sorted_values(Y \ {y})

ObservedYearSets ==
    {(FIRST_YEAR..LAST_YEAR) \ Missing :
        Missing \in {S \in SUBSET (FIRST_YEAR..LAST_YEAR) : Cardinality(S) <= MaxMissing}}

worker_rows(id, Y, n) ==
    [k \in 1..Cardinality(Y) |->
        [idx |-> n + k - 1, id_worker |-> id, year |-> sorted_values(Y)[k]]]

FlagsInit ==
    /\ df = <<>>
    /\ call = "none"
    /\ ret = None
    /\ diag = None

LoadWorker ==
    /\ call = "none"
    /\ \E id \in Workers, Y \in ObservedYearSets :
          /\ \A i \in 1..Len(df) : df[i].id_worker # id
          /\ df' = df \o worker_rows(id, Y, Len(df))
    /\ UNCHANGED <<call, ret, diag>>

CallMakeFlags ==
    /\ call = "none"
    /\ call' = "make_flags"
    /\ ret' = [kind |-> "table", rows |-> make_flags(df)]
    /\ UNCHANGED <<df, diag>>

FlagsNext == LoadWorker \/ CallMakeFlags

FlagsSpec == FlagsInit /\ [][FlagsNext]_vars

observed_years(id) == {df[j].year : j \in {k \in 1..Len(df) : df[k].id_worker = id}}

\* C5: the flag of a row is true exactly when the years observed for the
\* row's worker include each of 1997..2001 and 2003..2007; it is the same on
\* all rows of a worker, and two workers whose years differ only by 2002
\* have the same flag.
C5_BalancedFlag ==
    Returned("make_flags") =>
        /\ Len(ret.rows) = Len(df)
        /\ \A i \in 1..Len(df) :
              ret.rows[i].is_balanced_97_07 =
                  (\A y \in {1997, 1998, 1999, 2000, 2001, 2003, 2004, 2005, 2006, 2007} :
                      y \in observed_years(df[i].id_worker))
        /\ \A i, j \in 1..Len(df) :
              (observed_years(df[i].id_worker) \ {2002}
                  = observed_years(df[j].id_worker) \ {2002}) =>
                  ret.rows[i].is_balanced_97_07 = ret.rows[j].is_balanced_97_07

\* one worker observed in every year but 2002 (balanced), one in every year
\* but 1999 (not balanced)
C5_Witness ==
    /\ Returned("make_flags")
    /\ \E i, j \in 1..Len(df) :
          /\ 2002 \notin observed_years(df[i].id_worker)
          /\ ret.rows[i].is_balanced_97_07
          /\ 1999 \notin observed_years(df[j].id_worker)
          /\ ~ret.rows[j].is_balanced_97_07

(***************************************************************************)
(* The tables make_outcomes is called on with both of the columns it      *)
(* reads unconditionally.                                                  *)
(***************************************************************************)
WageCells ==
    {missing_cell, num_cell(-5), num_cell(0), num_cell(7),
     str_cell(<<"x">>), str_cell(<<"3">>)}

WeeksCells ==
    {missing_cell, num_cell(0), num_cell(52),
     str_cell(<<"-">>), str_cell(<<"4", "0">>), str_cell(<<"0">>)}

OutcomesInit ==
    /\ df = <<>>
    /\ call = "none"
    /\ ret = None
    /\ diag = None

LoadWageRow ==
    /\ call = "none"
    /\ Len(df) < MaxOutcomeRows
    /\ \E w \in WageCells, k \in WeeksCells :
          df' = Append(df, [idx |-> Len(df), wage |-> w, working_weeks |-> k])
    /\ UNCHANGED <<call, ret, diag>>

CallMakeOutcomes ==
    /\ call = "none"
    /\ call' = "make_outcomes"
    /\ ret' = IF make_outcomes_raises(df) THEN Raised
              ELSE [kind |-> "table", rows |-> make_outcomes(df)]
    /\ UNCHANGED <<df, diag>>

OutcomesNext == LoadWageRow \/ CallMakeOutcomes

OutcomesSpec == OutcomesInit /\ [][OutcomesNext]_vars

\* a cell that holds a number above zero: a number, or a text made of
\* digits that are not all "0"; any other text counts as missing
present_and_positive(c) ==
    \/ c.k = "num" /\ c.v > 0
    \/ /\ c.k = "str"
       /\ c.s # <<>>
       /\ \A n \in 1..Len(c.s) :
             c.s[n] \in {"0", "1", "2", "3", "4", "5", "6", "7", "8", "9"}
       /\ \E n \in 1..Len(c.s) : c.s[n] # "0"

\* C6: emp_prob of every row is 0 or 1, and it is 1 exactly when wage is
\* present and above zero or working_weeks is present and above zero.
C6_EmpProb ==
    Returned("make_outcomes") =>
        /\ Len(ret.rows) = Len(df)
        /\ \A i \in 1..Len(df) :
              /\ ret.rows[i].emp_prob \in {0, 1}
              /\ (ret.rows[i].emp_prob = 1) <=>
                    (present_and_positive(df[i].wage)
                        \/ present_and_positive(df[i].working_weeks))

\* a row employed through its weeks alone beside a row whose wage and weeks
\* are both texts that denote no positive number
C6_Witness ==
    /\ Returned("make_outcomes")
    /\ \E i, j \in 1..Len(df) :
          /\ ~present_and_positive(df[i].wage)
          /\ df[i].working_weeks.k = "str"
          /\ ret.rows[i].emp_prob = 1
          /\ df[j].wage.k = "str" /\ df[j].working_weeks.k = "str"
          /\ ret.rows[j].emp_prob = 0

(***************************************************************************)
(* models.py.  A panel row passed to the estimation functions carries      *)
(* id_worker, year, event_time, molise_res, post, treat, worker_type and   *)
(* one outcome column y; a missing value is NaN (NA for worker_type).      *)
(* Coefficients and standard errors are in hundredths.                     *)
(*                                                                         *)
(* PanelOLS(y, X).fit is the linearmodels library: on a table without rows *)
(* it raises (the rank of an exog without rows is below its column count); *)
(* on any other table it either raises (rank deficiency, absorbed          *)
(* regressors) or returns one estimate per column of X.  Which of the two, *)
(* and the estimate, is the caller's choice o.                             *)
(***************************************************************************)
FitChoices ==
    {[raises |-> TRUE, beta |-> 0, se |-> 0],
     [raises |-> FALSE, beta |-> 150, se |-> 50],
     [raises |-> FALSE, beta |-> -100, se |-> 25]}

\* xcols are the regressors besides the constant sm.add_constant adds
panel_ols(data, xcols, o) ==
    IF data = <<>> \/ o.raises THEN Raised
    ELSE [kind |-> "fit", params |-> [c \in xcols |-> [beta |-> o.beta, se |-> o.se]]]

\* did: dropna(subset=[outcome, 'molise_res', 'post', 'treat'])
did_complete(r) == r.y # NaN /\ r.molise_res # NaN /\ r.post # NaN /\ r.treat # NaN

did_data(t) == SelectSeq(t, did_complete)

did(t, o) == panel_ols(did_data(t), {"treat"}, o)

\* ddd_worker_type: isin(['public', 'private', 'self']), then
\* dropna(subset=[outcome, 'molise_res', 'post', 'worker_type'])
ddd_in_sample(r) ==
    /\ r.worker_type \in {"public", "private", "self"}
    /\ r.y # NaN /\ r.molise_res # NaN /\ r.post # NaN /\ r.worker_type # NA

ddd_data(t) == SelectSeq(t, ddd_in_sample)

ddd_worker_type(t, o) ==
    panel_ols(ddd_data(t),
              {"treat_private", "treat_self", "molise_res", "post",
"private", "self", "molise_private", "molise_self",
               "post_private", "post_self"}, o)

\* event_study: dropna(subset=[outcome, 'molise_res', 'event_time'])
es_complete(r) == r.y # NaN /\ r.molise_res # NaN /\ r.event_time # NaN

\* the window with the earthquake year left in
in_event_window_with_0(r) == r.event_time >= -5 /\ r.event_time <= 5

\* between(-5, 5) & (event_time != 0)
in_event_window(r) == r.event_time >= -5 /\ r.event_time <= 5 /\ r.event_time # 0

es_data(t) == SelectSeq(SelectSeq(t, es_complete), in_event_window)

\* the event times of the data with the reference period left in
event_times_with_reference(data) ==
    sorted_values({data[i].event_time : i \in 1..Len(data)})

\* sorted([k for k in data['event_time'].unique() if k != -1])
event_times(data) ==
    sorted_values({data[i].event_time : i \in 1..Len(data)} \ {-1})

CI_Z == 196
SCALE == 100

coefficient_row(k, wt, p) ==
    [event_time |-> k, worker_type |-> wt, beta |-> p.beta, se |-> p.se,
     ci_low |-> p.beta - (CI_Z * p.se) \div SCALE,
     ci_high |-> p.beta + (CI_Z * p.se) \div SCALE]

reference_row(wt) ==
    [event_time |-> -1, worker_type |-> wt, beta |-> 0, se |-> 0,
     ci_low |-> 0, ci_high |-> 0]

\* the rows one regression adds to results_list: one per event time whose
\* coefficient is among the parameters, then the reference period
regression_rows(ks, wt, fit) ==
    LET present == SelectSeq(ks, LAMBDA k : k \in DOMAIN fit.params)
    IN  [n \in 1..Len(present) |-> coefficient_row(present[n], wt, fit.params[present[n]])]
        \o <<reference_row(wt)>>

\* the pooled table has no worker_type column
POOLED == "-"

\* the columns event_{k}, named by k
event_columns(ks) == {ks[n] : n \in 1..Len(ks)}

event_study_pooled(t, o) ==
    LET data == es_data(t)
        ks == event_times(data)
        fit == panel_ols(data, event_columns(ks), o)
    IN  IF fit = Raised THEN Raised
        ELSE [kind |-> "table", by_type |-> FALSE,
              rows |-> regression_rows(ks, POOLED, fit)]

WORKER_TYPES == <<"public", "private", "self">>

data_of_type(data, wt) == SelectSeq(data, LAMBDA r : r.worker_type = wt)

\* the loop over the worker types from position n on; a type without rows
\* is skipped, a fit that raises ends the call
RECURSIVE event_study_types(_, _, _, _)
event_study_types(data, ks, n, o) ==
    IF n > Len(WORKER_TYPES) THEN [raised |-> FALSE, rows |-> <<>>]
    ELSE LET wt == WORKER_TYPES[n]
             data_type == data_of_type(data, wt)
             rest == event_study_types(data, ks, n + 1, o)
         IN  IF data_type = <<>> THEN rest
             ELSE LET fit == panel_ols(data_type, event_columns(ks), o[wt])
                  IN  IF fit = Raised \/ rest.raised
                      THEN [raised |-> TRUE, rows |-> <<>>]
                      ELSE [raised |-> FALSE,
                            rows |-> regression_rows(ks, wt, fit) \o rest.rows]

event_study_by_type(t, o) ==
    LET data == es_data(t)
        loop == event_study_types(data, event_times(data), 1, o)
    IN  IF loop.raised THEN Raised
        ELSE [kind |-> "table", by_type |-> TRUE, rows |-> loop.rows]

event_study(t, by_type, o) ==
    IF by_type THEN event_study_by_type(t, o)
    ELSE event_study_pooled(t, o["public"])

(***************************************************************************)
(* diagnostics.py: pretrend_test.  test_stat is the quotient num / den of  *)
(* two floats (NaN for 0 / 0, infinite for den = 0, never an exception);   *)
(* p_value is 1 - chi2.cdf(test_stat, df), kept as its arguments.          *)
(***************************************************************************)
is_pre(r) == r.event_time < 0

RECURSIVE sum_beta(_)
sum_beta(rows) ==
    IF rows = <<>> THEN 0 ELSE Head(rows).beta + sum_beta(Tail(rows))

RECURSIVE sum_beta_squared(_)
sum_beta_squared(rows) ==
    IF rows = <<>> THEN 0
    ELSE Head(rows).beta * Head(rows).beta + sum_beta_squared(Tail(rows))

RECURSIVE sum_se_squared(_)
sum_se_squared(rows) ==
    IF rows = <<>> THEN 0
    ELSE Head(rows).se * Head(rows).se + sum_se_squared(Tail(rows))

\* the statistic with the coefficients squared before they are summed
wald_numerator_sum_of_squares(pre) == sum_beta_squared(pre)

\* coefs.sum() ** 2
wald_numerator(pre) == sum_beta(pre) * sum_beta(pre)

\* (ses ** 2).sum()
wald_denominator(pre) == sum_se_squared(pre)

pretrend_test(event_df) ==
    LET pre == SelectSeq(event_df, is_pre)
    IN  IF Len(pre) = 0
        THEN [kind |-> "nan"]
        ELSE [kind |-> "stat",
              test_stat |-> [num |-> wald_numerator(pre), den |-> wald_denominator(pre)],
              chi2_df |-> Len(pre),
              n_pre_periods |-> Len(pre)]

(***************************************************************************)
(* The panels the estimation functions are called on: rows of worker 1     *)
(* (public) and worker 2 (private) at the event times -3, -2, -1 and 1,    *)
(* and rows of worker 3 that one of the calls drops: an event time outside *)
(* the window, the earthquake year, a missing event time, outcome,         *)
(* molise_res or worker type.  Rows are loaded in the order of PanelRows.  *)
(***************************************************************************)
panel_row(id, et, wt, m, y) ==
    [id_worker |-> id,
     year |-> IF et = NaN THEN NaN ELSE EVENT_YEAR + et,
     event_time |-> et, worker_type |-> wt, molise_res |-> m,
     post |-> IF et # NaN /\ et >= 1 THEN 1 ELSE 0,
     treat |-> IF m = NaN THEN NaN ELSE IF et # NaN /\ et >= 1 THEN m ELSE 0,
     y |-> y]

PanelRows ==
    <<panel_row(1, -3, "public", 1, 10), panel_row(1, -2, "public", 1, 10),
      panel_row(1, -1, "public", 1, 10), panel_row(1, 1, "public", 1, 10),
      panel_row(2, -3, "private", 0, 10), panel_row(2, -2, "private", 0, 10),
      panel_row(2, -1, "private", 0, 10), panel_row(2, 1, "private", 0, 10),
      panel_row(3, -6, "public", 1, 10), panel_row(3, 0, "public", 1, 10),
      panel_row(3, NaN, "public", 1, 10), panel_row(3, -2, "public", 1, NaN),
      panel_row(3, 1, "public", NaN, 10), panel_row(3, 2, NA, 1, 10)>>

EstimationInit ==
    /\ df = <<>>
    /\ call = "none"
    /\ ret = None
    /\ diag = None

\* position in PanelRows of the last row loaded
last_loaded == IF df = <<>> THEN 0 ELSE df[Len(df)].idx

LoadPanelRow ==
    /\ call = "none"
    /\ Len(df) < MaxPanelRows
    /\ \E n \in (last_loaded + 1)..Len(PanelRows) :
          df' = Append(df, [idx |-> n] @@ PanelRows[n])
    /\ UNCHANGED <<call, ret, diag>>

CallDid ==
    /\ call = "none"
    /\ \E o \in FitChoices :
          /\ call' = "did"
          /\ ret' = did(df, o)
    /\ UNCHANGED <<df, diag>>

CallDddWorkerType ==
    /\ call = "none"
    /\ \E o \in FitChoices :
          /\ call' = "ddd_worker_type"
          /\ ret' = ddd_worker_type(df, o)
    /\ UNCHANGED <<df, diag>>

CallEventStudy ==
    /\ call = "none"
    /\ \E by_type \in BOOLEAN, o \in [{"public", "private", "self"} -> FitChoices] :
          /\ call' = "event_study"
          /\ ret' = event_study(df, by_type, o)
    /\ UNCHANGED <<df, diag>>

\* pretrend_test on the table event_study returned
CallPretrendTest ==
    /\ call = "event_study"
    /\ ret.kind = "table"
    /\ diag = None
    /\ diag' = pretrend_test(ret.rows)
    /\ UNCHANGED <<df, call, ret>>

EstimationNext ==
    \/ LoadPanelRow
    \/ CallDid
    \/ CallDddWorkerType
    \/ CallEventStudy
    \/ CallPretrendTest

EstimationSpec == EstimationInit /\ [][EstimationNext]_vars

(***************************************************************************)
(* Claims about event_study, did, ddd_worker_type and pretrend_test.       *)
(***************************************************************************)
\* the rows of df left after event_study's missing-value drop and window filter
surviving ==
    {i \in 1..Len(df) :
        /\ df[i].y # NaN /\ df[i].molise_res # NaN /\ df[i].event_time # NaN
        /\ df[i].event_time \in ((-5)..5) \ {0}}

reference_rows(wt) ==
    {n \in 1..Len(ret.rows) :
        ret.rows[n].event_time = -1 /\ ret.rows[n].worker_type = wt}

all_zero(r) == r.beta = 0 /\ r.se = 0 /\ r.ci_low = 0 /\ r.ci_high = 0

\* C7 as stated: every returned table has a zero row for event_time -1,
\* exactly one in the pooled table and exactly one per worker type public,
\* private and self in the by-type table.
C7_ReferenceRowEveryType ==
    (call = "event_study" /\ ret.kind = "table") =>
        /\ \E n \in 1..Len(ret.rows) : ret.rows[n].event_time = -1
        /\ \A n \in 1..Len(ret.rows) :
              ret.rows[n].event_time = -1 => all_zero(ret.rows[n])
        /\ ~ret.by_type => Cardinality(reference_rows(POOLED)) = 1
        /\ ret.by_type =>
              \A wt \in {"public", "private", "self"} :
                  Cardinality(reference_rows(wt)) = 1

\* C7 amended: the pooled table has exactly one row for event_time -1; the
\* by-type table has exactly one for each worker type with a row left after
\* the drop and the filter and none for any other type; every such row is
\* zero in beta, se, ci_low and ci_high, so none is an estimate.
C7_ReferenceRowPerFittedType ==
    (call = "event_study" /\ ret.kind = "table") =>
        /\ \A n \in 1..Len(ret.rows) :
              ret.rows[n].event_time = -1 => all_zero(ret.rows[n])
        /\ ~ret.by_type =>
              Cardinality({n \in 1..Len(ret.rows) : ret.rows[n].event_time = -1}) = 1
        /\ ret.by_type =>
              \A wt \in {"public", "private", "self"} :
                  Cardinality({n \in 1..Len(ret.rows) :
                      ret.rows[n].event_time = -1 /\ ret.rows[n].worker_type = wt})
                  = (IF \E i \in surviving : df[i].worker_type = wt THEN 1 ELSE 0)

\* a by-type table from a panel that observes public workers at -1 and at
\* another event time, and no private worker
C7_Witness ==
    /\ call = "event_study" /\ ret.kind = "table" /\ ret.by_type
    /\ \E i, j \in surviving :
          /\ df[i].worker_type = "public" /\ df[i].event_time = -1
          /\ df[j].worker_type = "public" /\ df[j].event_time # -1
    /\ \A i \in surviving : df[i].worker_type # "private"
    /\ Len(ret.rows) = 2

result_event_times == {ret.rows[n].event_time : n \in 1..Len(ret.rows)}

\* C8: the pooled table has one row per event time: the event times of the
\* rows left after the drop and the filter, and -1; none twice, none 0 or
\* outside -5..5.
C8_OneRowPerEventTime ==
    (call = "event_study" /\ ret.kind = "table" /\ ~ret.by_type) =>
        /\ result_event_times = {df[i].event_time : i \in surviving} \cup {-1}
        /\ Len(ret.rows) = Cardinality(result_event_times)
        /\ \A k \in result_event_times : k # 0 /\ k >= -5 /\ k <= 5

\* the panel with the event times -3, -2, -1 and 1 and its four result rows
C8_Witness ==
    /\ call = "event_study" /\ ret.kind = "table" /\ ~ret.by_type
    /\ {df[i].event_time : i \in 1..Len(df)} = {-3, -2, -1, 1}
    /\ Len(ret.rows) = 4
    /\ result_event_times = {-3, -2, -1, 1}

\* C9: did, ddd_worker_type and event_study do not raise on a table that
\* has no row left after their missing-value drop and sample filter.
C9_EmptyInputDoesNotRaise ==
    /\ (call = "did" /\ \A i \in 1..Len(df) : ~did_complete(df[i])) => ret # Raised
    /\ (call = "ddd_worker_type" /\ \A i \in 1..Len(df) : ~ddd_in_sample(df[i]))
          => ret # Raised
    /\ (call = "event_study" /\ surviving = {}) => ret # Raised

pre_period_rows == SelectSeq(ret.rows, LAMBDA r : r.event_time < 0)

RECURSIVE total(_)
total(xs) == IF xs = <<>> THEN 0 ELSE Head(xs) + total(Tail(xs))

betas(rows) == [n \in 1..Len(rows) |-> rows[n].beta]

squared_ses(rows) == [n \in 1..Len(rows) |-> rows[n].se * rows[n].se]

pretrend_test_returned == call = "event_study" /\ ret.kind = "table" /\ diag # None

ContractCells == {missing_cell, num_cell(1), num_cell(2)}

StartCells ==
    {missing_cell, str_cell(<<"x">>),
     str_cell(<<"2", "0", "0", "1", "-", "0", "1", "-", "3", "0">>)}

EndCells ==
    {missing_cell,
     str_cell(<<"2", "0", "0", "1", "-", "0", "3", "-", "0", "1">>)}

optional_column(present, col, cell) ==
    IF present THEN [c \in {col} |-> cell] ELSE <<>>

ColumnsInit ==
    /\ df = <<>>
    /\ call = "none"
    /\ ret = None
    /\ diag = None

LoadOptionalRow ==
    /\ call = "none"
    /\ Len(df) < MaxOutcomeRows
    /\ \E w \in {missing_cell, num_cell(7)}, k \in {missing_cell, num_cell(26)},
          c \in ContractCells, s \in StartCells, e \in EndCells,
          has_k \in BOOLEAN, has_c \in BOOLEAN, has_s \in BOOLEAN, has_e \in BOOLEAN :
          LET r == [idx |-> Len(df), wage |-> w]
                      @@ optional_column(has_k, "working_weeks", k)
                      @@ optional_column(has_c, "contract_type", c)
                      @@ optional_column(has_s, "date_start", s)
                      @@ optional_column(has_e, "date_end", e)
          IN  /\ IF df = <<>> THEN TRUE ELSE DOMAIN r = DOMAIN df[1]
              /\ df' = Append(df, r)
    /\ UNCHANGED <<call, ret, diag>>

ColumnsNext == LoadOptionalRow \/ CallMakeOutcomes

ColumnsSpec == ColumnsInit /\ [][ColumnsNext]_vars

table_has(col) == df # <<>> /\ col \in DOMAIN df[1]

\* a date cell that is missing or a text that is no date
no_date(c) ==
    \/ c.k = "na"
    \/ c.k = "str" /\ (Len(c.s) # 10 \/ c.s[5] # "-" \/ c.s[8] # "-")

\* C11: make_outcomes returns whichever optional column is absent; without
\* a working_weeks column the annualized earnings are wage * 12, without a
\* contract_type column contract_perm is 0, and without the two date
\* columns, or with a date that is missing or does not parse,
\* contract_duration_days is 0.
C11_OptionalColumnsAbsent ==
    (call = "make_outcomes" /\ df # <<>>) =>
        /\ ret.kind = "table"
        /\ \A i \in 1..Len(df) :
              /\ (~table_has("working_weeks") /\ df[i].wage.k = "num") =>
                    ret.rows[i].earnings_asinh
                        = asinh_winsorized(quotient(df[i].wage.v * 12, 1))
              /\ ~table_has("contract_type") => ret.rows[i].contract_perm = 0
              /\ (\/ ~table_has("date_start") \/ ~table_has("date_end")
                  \/ no_date(df[i].date_start) \/ no_date(df[i].date_end)) =>
                    ret.rows[i].contract_duration_days = 0

\* what C11 says of the calls that return: the defaults for an absent
\* contract_type column and for absent, missing or unparseable dates
C11_DefaultsWhenReturned ==
    (Returned("make_outcomes") /\ df # <<>>) =>
        \A i \in 1..Len(df) :
            /\ ~table_has("contract_type") => ret.rows[i].contract_perm = 0
            /\ (\/ ~table_has("date_start") \/ ~table_has("date_end")
                \/ no_date(df[i].date_start) \/ no_date(df[i].date_end)) =>
                  ret.rows[i].contract_duration_days = 0

(***************************************************************************)
(* The raw tables that carry municipality data: rows of two workers in the *)
(* treatment region, before and after the earthquake, each with a          *)
(* municipality of residence or none.                                      *)
(***************************************************************************)
Municipalities == {"A", "B"}

MUNICIPALITY_COLUMN == "municipality"

StayerInit ==
    /\ df = <<>>
    /\ call = "none"
    /\ ret = None
    /\ diag = None

LoadMunicipalityRow ==
    /\ call = "none"
    /\ Len(df) < MaxRows
    /\ \E id \in Workers, y \in {2000, 2003}, m \in Municipalities \cup {NA} :
          df' = Append(df,
                   [municipality |-> m]
                       @@ labelled([id_worker |-> id, year |-> y,
                                    region_res |-> TREATMENT_CODE, type |-> 1],
                                   Len(df)))
    /\ UNCHANGED <<call, ret, diag>>

\* make_flags(df, municipality_col='municipality')
CallMakeFlagsWithMunicipality ==
    /\ call = "none"
    /\ call' = "make_flags"
    /\ ret' = [kind |-> "table", rows |-> make_flags_with(df, MUNICIPALITY_COLUMN)]
    /\ UNCHANGED <<df, diag>>

StayerNext == LoadMunicipalityRow \/ CallAssemblePanel \/ CallMakeFlagsWithMunicipality

StayerSpec == StayerInit /\ [][StayerNext]_vars

\* the municipalities of residence of the worker of row i of the table t
municipalities_of(t, i) ==
    {t[j].municipality : j \in {k \in 1..Len(t) : t[k].id_worker = t[i].id_worker}}

\* C12: in the panel of an input that carries municipality data,
\* is_stayer_residence of a row is true exactly when the row's worker has
\* one distinct municipality over the panel (stated for the workers whose
\* municipality is never missing).
C12_StayerFlagInPanel ==
    Returned("assemble_panel") =>
        \A i \in 1..Len(ret.rows) :
            NA \notin municipalities_of(ret.rows, i) =>
                (ret.rows[i].is_stayer_residence
                    <=> Cardinality(municipalities_of(ret.rows, i)) = 1)

\* make_flags itself, given the name of the municipality column, computes
\* the flag C12 describes
C12_StayerFlagWhenColumnIsNamed ==
    Returned("make_flags") =>
        \A i \in 1..Len(df) :
            NA \notin municipalities_of(df, i) =>
                (ret.rows[i].is_stayer_residence
                    <=> Cardinality(municipalities_of(df, i)) = 1)

(***************************************************************************)
(* The raw tables with every kind of worker-type code: the four codes of   *)
(* the map, codes outside it and a missing code, on rows of one worker in  *)
(* the treatment region before and after the earthquake.                   *)
(***************************************************************************)
TypeCodes == {1, 2, 3, 4, 9, NaN}

MappedCodes == {1, 2, 3, 4}

TypesInit ==
    /\ df = <<>>
    /\ call = "none"
    /\ ret = None
    /\ diag = None

LoadTypeRow ==
    /\ call = "none"
    /\ Len(df) < MaxRows
    /\ \E y \in {2001, 2003}, code \in TypeCodes :
          df' = Append(df, labelled([id_worker |-> 1, year |-> y,
                                     region_res |-> TREATMENT_CODE,
                                     type |-> code], Len(df)))
    /\ UNCHANGED <<call, ret, diag>>

\* construct_worker_type(df, type_col='type'): the categorical it returns
CallConstructWorkerType ==
    /\ call = "none"
    /\ call' = "construct_worker_type"
    /\ ret' = [kind |-> "categorical",
               values |-> [i \in 1..Len(df) |-> construct_worker_type(df[i].type)]]
    /\ UNCHANGED <<df, diag>>

TypesNext == LoadTypeRow \/ CallConstructWorkerType \/ CallAssemblePanel

TypesSpec == TypesInit /\ [][TypesNext]_vars

\* the rows of the returned panel that come from row i of the input
panel_rows_from(i) == {j \in 1..Len(ret.rows) : ret.rows[j].idx = df[i].idx}

\* C13: construct_worker_type maps 1 to private, 2 to public, 3 to self and
\* 4 to non_employed and every other or missing code to the missing
\* category; assemble_panel keeps the rows with such a code (one panel row
\* for each, in the analysis years and regions) with the missing category.
C13_UnmappedCodeIsMissingCategory ==
    /\ (call = "construct_worker_type" /\ ret.kind = "categorical") =>
          /\ Len(ret.values) = Len(df)
          /\ \A i \in 1..Len(df) :
                /\ df[i].type = 1 => ret.values[i] = "private"
                /\ df[i].type = 2 => ret.values[i] = "public"
                /\ df[i].type = 3 => ret.values[i] = "self"
                /\ df[i].type = 4 => ret.values[i] = "non_employed"
                /\ df[i].type \notin MappedCodes => ret.values[i] = NA
    /\ Returned("assemble_panel") =>
          \A i \in 1..Len(df) :
              df[i].type \notin MappedCodes =>
                  /\ Cardinality(panel_rows_from(i)) = 1
                  /\ \A j \in panel_rows_from(i) :
                        /\ ret.rows[j].worker_type = NA
                        /\ ret.rows[j].type = df[i].type

\* a panel that holds a row with a code outside the map and a row with a
\* missing code, next to an input row of a non-employed worker
C13_Witness ==
    /\ Returned("assemble_panel")
    /\ \E j \in 1..Len(ret.rows) :
          ret.rows[j].type = 9 /\ ret.rows[j].worker_type = NA
    /\ \E j \in 1..Len(ret.rows) :
          ret.rows[j].type = NaN /\ ret.rows[j].worker_type = NA
    /\ \E i \in 1..Len(df) : df[i].type = 4

(***************************************************************************)
(* Sequences of calls on one table.  The table has the columns every       *)
(* function reads: the raw columns assemble_panel, make_outcomes and       *)
(* make_flags read and the panel columns the estimation functions read,    *)
(* as an assembled panel that kept its raw columns has.  After a call      *)
(* returns, the caller goes on with the same table.                        *)
(*                                                                         *)
(* make_outcomes and make_flags only read df and build their result on a   *)
(* new DataFrame(index=df.index).  did, ddd_worker_type and event_study    *)
(* copy df (models.py:37, 85, 150) and rebind data to the result of        *)
(* dropna() or of a filter before their first column assignment.           *)
(* pretrend_test filters event_df into a copy (diagnostics.py:25).         *)
(***************************************************************************)
MaxPipelineRows == 2

RAW_TYPE_CODE == [public |-> 2, private |-> 1, NA |-> 9]

pipeline_row(n) ==
    [idx |-> n,
     region_res |-> IF PanelRows[n].molise_res = 1 THEN TREATMENT_CODE
                    ELSE CONTROL_CODE,
     type |-> RAW_TYPE_CODE[PanelRows[n].worker_type],
     wage |-> num_cell(7), working_weeks |-> num_cell(52)] @@ PanelRows[n]

PipelineInit ==
    /\ df = <<>>
    /\ call = "none"
    /\ ret = None
    /\ diag = None

LoadPipelineRow ==
    /\ call = "none"
    /\ Len(df) < MaxPipelineRows
    /\ \E n \in (last_loaded + 1)..Len(PanelRows) :
          df' = Append(df, pipeline_row(n))
    /\ UNCHANGED <<call, ret, diag>>

\* the call is over and its result dropped; the caller still holds df
Return ==
    /\ call # "none"
    /\ call' = "none"
    /\ ret' = None
    /\ diag' = None
    /\ UNCHANGED df

PipelineNext ==
    \/ LoadPipelineRow
    \/ CallAssemblePanel
    \/ CallMakeOutcomes
    \/ CallMakeFlags
    \/ CallDid
    \/ CallDddWorkerType
    \/ CallEventStudy
    \/ CallPretrendTest
    \/ Return

PipelineSpec == PipelineInit /\ [][PipelineNext]_vars

\* C14: a call of assemble_panel, make_outcomes, make_flags, did,
\* ddd_worker_type or event_study leaves the table passed to it (df) as it
\* was, and pretrend_test leaves both df and the event-study table passed to
\* it (ret) as they were; so the table is the same after any sequence of
\* calls.
C14_CallsLeaveTableUnchanged ==
    [][call' # "none" => /\ df' = df
                         /\ call # "none" => ret' = ret]_vars

\* assemble_panel has returned a panel with derived columns for a table of
\* two rows, and the table passed has none of the derived columns
C14_Witness ==
    /\ Returned("assemble_panel")
    /\ ret.rows # <<>>
    /\ {"age", "emp_prob", "is_balanced_97_07"} \subseteq DOMAIN ret.rows[1]
    /\ {"age", "emp_prob", "is_balanced_97_07"} \cap DOMAIN df[1] = {}
    /\ Len(df) = 2

====
